---- MODULE Spec2Model ----
(***************************************************************************)
(* Model of the route visualiser: the equirectangular projection           *)
(* (er_projection.py), the input validation schema (pydantic_models.py)    *)
(* and the reformat / plot pipeline (main.py, visualise_deliveries.py).    *)
(*                                                                         *)
(* Coordinates are binary floating-point numbers.  A float is a record     *)
(* [m, e] standing for m * 2^e, with |m| in [2^(MantBits-1), 2^MantBits)   *)
(* or m = 0, and every arithmetic result is rounded to nearest, ties to    *)
(* even, as IEEE-754 does.  The code computes with 53-bit mantissas; the   *)
(* model keeps the arithmetic and shortens the mantissa to MantBits.       *)
(***************************************************************************)
EXTENDS Integers, Sequences, FiniteSets, TLC

\* ------------------------------------------------- size of the model
MantBits == 13
MaxOrders == 2
MaxRoutes == 2
MaxRouteIds == 4
MaxLen == 2

\* ------------------------------------------------- floating point layer
Abs(n) == IF n < 0 THEN -n ELSE n

Sgn(n) == IF n < 0 THEN -1 ELSE IF n = 0 THEN 0 ELSE 1

\* number of binary digits of n >= 0
BitLen(n) == CHOOSE k \in 0..30 : n < 2^k /\ (k = 0 \/ n >= 2^(k-1))

\* n * 2^e rounded to MantBits significant bits, ties to even
RoundF(n, e) ==
    IF n = 0 THEN [m |-> 0, e |-> 0]
    ELSE LET a == Abs(n)
             k == BitLen(a)
         IN IF k <= MantBits
            THEN [m |-> n * 2^(MantBits - k), e |-> e - (MantBits - k)]
            ELSE LET sh == k - MantBits
                     q == a \div 2^sh
                     r == a % 2^sh
                     half == 2^(sh - 1)
                     up == r > half \/ (r = half /\ q % 2 = 1)
                     q1 == IF up THEN q + 1 ELSE q
                 IN IF q1 = 2^MantBits
                    THEN [m |-> Sgn(n) * 2^(MantBits - 1), e |-> e + sh + 1]
                    ELSE [m |-> Sgn(n) * q1, e |-> e + sh]

FromInt(n) == RoundF(n, 0)

MulF(a, b) == RoundF(a.m * b.m, a.e + b.e)

LtF(a, b) ==
    LET sa == Sgn(a.m)
        sb == Sgn(b.m)
    IN IF sa # sb THEN sa < sb
       ELSE IF sa = 0 THEN FALSE
       ELSE IF sa = 1 THEN a.e < b.e \/ (a.e = b.e /\ a.m < b.m)
       ELSE a.e > b.e \/ (a.e = b.e /\ a.m < b.m)

LeF(a, b) == a = b \/ LtF(a, b)

\* the next float above a positive float, the next below a negative one
NextAway(a) == RoundF(a.m + Sgn(a.m), a.e)

Zero == FromInt(0)

\* --------------------------------------------------- er_projection.py
EarthRadius == 6371

\* pi / 180 scaled by 2^35, the factor of np.radians
Deg2RadNum == 599690565

\* cos(radians(-31.952258602714696)) scaled by 2^30
CosCentreNum == 911058507

Deg2Rad == RoundF(Deg2RadNum, -35)

\* np.radians of one element
Radians(x) == MulF(x, Deg2Rad)

\* np.cos(center_latitude_radians): the cosine of the fixed centre point
CosCentre == RoundF(CosCentreNum, -30)

ProjectLat(x) == MulF(FromInt(EarthRadius), Radians(x))

ProjectLon(x) == MulF(MulF(FromInt(EarthRadius), Radians(x)), CosCentre)

\* the projection with its results returned in the other order
EquiRectProjectSwapped(latitudes, longitudes) ==
    <<[i \in 1..Len(longitudes) |-> ProjectLon(longitudes[i])],
      [i \in 1..Len(latitudes) |-> ProjectLat(latitudes[i])]>>

\* the projection without the cosine factor on the longitudes
EquiRectProjectNoNarrowing(latitudes, longitudes) ==
    <<[i \in 1..Len(latitudes) |-> ProjectLat(latitudes[i])],
      [i \in 1..Len(longitudes) |-> ProjectLat(longitudes[i])]>>

\* returns <<latitudes, longitudes>>, both projected
EquiRectProject(latitudes, longitudes) ==
    LET r == FromInt(EarthRadius)
        longitudes_radians == [i \in 1..Len(longitudes) |-> Radians(longitudes[i])]
        latitudes_radians == [i \in 1..Len(latitudes) |-> Radians(latitudes[i])]
        lon_out == [i \in 1..Len(longitudes) |->
                       MulF(MulF(r, longitudes_radians[i]), CosCentre)]
        lat_out == [i \in 1..Len(latitudes) |-> MulF(r, latitudes_radians[i])]
    IN <<lat_out, lon_out>>

\* the caller's lists overwritten by the projected values
ArgsAfterInPlace(latitudes, longitudes) ==
    EquiRectProject(latitudes, longitudes)

\* the caller's lists after the call: np.array copies, the locals are rebound
ArgsAfter(latitudes, longitudes) == <<latitudes, longitudes>>

\* ------------------------------------------------- pydantic_models.py
Missing == "<missing>"

\* OrderInput with the bounds exclusive
OrderInputValidExclusive(o) ==
    /\ o.order_id > 0
    /\ LtF(FromInt(-90), o.lat) /\ LtF(o.lat, FromInt(90))
    /\ LtF(FromInt(-180), o.lon) /\ LtF(o.lon, FromInt(180))

\* OrderInput: order_id ge 0, lat ge -90 le 90, lon ge -180 le 180
OrderInputValid(o) ==
    /\ o.order_id >= 0
    /\ LeF(FromInt(-90), o.lat) /\ LeF(o.lat, FromInt(90))
    /\ LeF(FromInt(-180), o.lon) /\ LeF(o.lon, FromInt(180))

\* ClusterConfig: type is required
ClusterConfigValid(c) == c.type # Missing

\* SolverConfig: type and distance are required, max_solve_size ge 1
SolverConfigValid(s) ==
    /\ s.type # Missing
    /\ s.distance # Missing
    /\ s.max_solve_size >= 1

RECURSIVE OrdersUniqueFrom(_, _, _)
\* the loop of orders_unique from index i on: FALSE when it raises
OrdersUniqueFrom(v, i, seen_id) ==
    IF i > Len(v) THEN TRUE
    ELSE IF v[i].order_id \in seen_id THEN FALSE
    ELSE OrdersUniqueFrom(v, i + 1, seen_id \cup {v[i].order_id})

\* the validator left out
OrdersUniqueOff(v) == TRUE

\* RouteInput.orders_unique: TRUE when v is returned, FALSE when ValueError
OrdersUnique(v) == OrdersUniqueFrom(v, 1, {})

\* RouteInput(**locations): the field validator runs on a list of valid orders
RouteInputValid(d) ==
    /\ ClusterConfigValid(d.vehicle_cluster_config)
    /\ SolverConfigValid(d.solver_config)
    /\ \A i \in 1..Len(d.orders) : OrderInputValid(d.orders[i])
    /\ OrdersUnique(d.orders)

\* the orders field of the constructed RouteInput
RouteInputOrders(d) == d.orders

\* ------------------------------------ main.py, visualise_deliveries.py
VARIABLES
    entry,           \* the function called
    file_locations,  \* content of the locations JSON file
    file_routes,     \* content of the routes JSON file; create_graph: its route
    arg,             \* <<latitudes, longitudes>> of a direct projection call
    pc,              \* position in the program
    locations,       \* the RouteInput built from the file
    routes,          \* list of routes
    lats, longs,     \* projected coordinates of the orders
    orders,          \* dict order_id -> [lat, lon], unprojected
    scatter,         \* points given to plt.scatter, <<x, y>>
    coll,            \* start_longs, start_lat, end_longs, end_lats
    proj,            \* the same four lists, projected
    arrows,          \* plt.annotate calls made, in order
    calls            \* every call of equi_rect_project, in order

vars == <<entry, file_locations, file_routes, arg, pc, locations, routes,
          lats, longs, orders, scatter, coll, proj, arrows, calls>>

inputs == <<entry, file_locations, file_routes, arg>>

SeqsUpTo(S, n) == UNION {[1..k -> S] : k \in 0..n}

EmptyProj == [start_lats |-> <<>>, start_longs |-> <<>>,
              end_lats |-> <<>>, end_longs |-> <<>>]

\* one call of equi_rect_project as the caller sees it
ErpCall(latitudes, longitudes) ==
    LET out == EquiRectProject(latitudes, longitudes)
        after == ArgsAfter(latitudes, longitudes)
    IN [lat_in |-> latitudes, lon_in |-> longitudes,
        lat_after |-> after[1], lon_after |-> after[2],
        lat_out |-> out[1], lon_out |-> out[2]]

\* {order.order_id: {'lat': order.lat, 'lon': order.lon} for order in orders}
OrdersDict(os) ==
    [k \in {os[i].order_id : i \in 1..Len(os)} |->
        LET last == CHOOSE i \in 1..Len(os) :
                       /\ os[i].order_id = k
                       /\ \A j \in (i+1)..Len(os) : os[j].order_id # k
        IN [lat |-> os[last].lat, lon |-> os[last].lon]]

RECURSIVE CollectEdges(_, _, _, _, _)
\* the nested loops of __add_lines from route j, index i on; err: KeyError
CollectEdges(rs, orders_dict, j, i, acc) ==
    IF j > Len(rs) THEN acc
    ELSE IF i > Len(rs[j]) - 1 THEN CollectEdges(rs, orders_dict, j + 1, 1, acc)
    ELSE LET start_id == rs[j][i]
             end_id == rs[j][i + 1]
         IN IF start_id \notin DOMAIN orders_dict \/ end_id \notin DOMAIN orders_dict
            THEN [acc EXCEPT !.err = TRUE]
            ELSE CollectEdges(rs, orders_dict, j, i + 1,
                   [err |-> FALSE,
                    start_longs |-> Append(acc.start_longs, orders_dict[start_id].lon),
                    start_lat |-> Append(acc.start_lat, orders_dict[start_id].lat),
                    end_longs |-> Append(acc.end_longs, orders_dict[end_id].lon),
                    end_lats |-> Append(acc.end_lats, orders_dict[end_id].lat)])

RECURSIVE FlattenRoutes(_)
FlattenRoutes(rs) ==
    IF rs = <<>> THEN <<>> ELSE rs[1] \o FlattenRoutes(Tail(rs))

RECURSIVE KnownOnly(_, _)
KnownOnly(r, orders_dict) ==
    IF r = <<>> THEN <<>>
    ELSE IF r[1] \in DOMAIN orders_dict
         THEN <<r[1]>> \o KnownOnly(Tail(r), orders_dict)
         ELSE KnownOnly(Tail(r), orders_dict)

NewColl == [err |-> FALSE, start_longs |-> <<>>, start_lat |-> <<>>,
            end_longs |-> <<>>, end_lats |-> <<>>]

\* the routes walked as one route
AddLinesCollectJoined(rs, orders_dict) ==
    CollectEdges(<<FlattenRoutes(rs)>>, orders_dict, 1, 1, NewColl)

\* unknown ids skipped instead of raising
AddLinesCollectSkipping(rs, orders_dict) ==
    CollectEdges([j \in 1..Len(rs) |-> KnownOnly(rs[j], orders_dict)],
                 orders_dict, 1, 1, NewColl)

\* the first loop of __add_lines
AddLinesCollect(rs, orders_dict) == CollectEdges(rs, orders_dict, 1, 1, NewColl)

\* latitudes and longitudes passed in the wrong order
AddLinesCallsSwapped(c) ==
    <<ErpCall(c.start_longs, c.start_lat), ErpCall(c.end_longs, c.end_lats)>>

\* the two projections of __add_lines: of the starts, then of the ends
AddLinesCalls(c) ==
    <<ErpCall(c.start_lat, c.start_longs), ErpCall(c.end_lats, c.end_longs)>>

\* ---------------------------------------------------------- the inputs
F(n) == FromInt(n)

oA == [order_id |-> 0, lat |-> F(-32), lon |-> F(115)]
oB == [order_id |-> 1, lat |-> F(-32), lon |-> NextAway(F(115))]
oC == [order_id |-> 1, lat |-> Zero, lon |-> Zero]
oD == [order_id |-> 0, lat |-> F(90), lon |-> F(180)]
oE == [order_id |-> 2, lat |-> F(-90), lon |-> F(-180)]
oF == [order_id |-> 2, lat |-> NextAway(F(90)), lon |-> Zero]
oG == [order_id |-> 1, lat |-> Zero, lon |-> NextAway(F(-180))]
oH == [order_id |-> -1, lat |-> Zero, lon |-> Zero]

OrderPool == {oA, oB, oC, oD, oE, oF, oG, oH}

GoodCluster == [type |-> "kmeans"]
GoodSolver == [type |-> "dwave", distance |-> "cartesian", max_solve_size |-> 1]

ConfigPool ==
    { [vcc |-> GoodCluster, sc |-> GoodSolver],
      [vcc |-> [type |-> Missing], sc |-> GoodSolver],
      [vcc |-> GoodCluster, sc |-> [GoodSolver EXCEPT !.max_solve_size = 0]] }

LocationsOf(c, os) ==
    [vehicle_cluster_config |-> c.vcc, solver_config |-> c.sc, orders |-> os]

\* locations files of the reformat calls
ReformatLocations ==
    {LocationsOf(c, os) : c \in ConfigPool, os \in SeqsUpTo(OrderPool, MaxOrders)}

\* locations files of the plotting calls
GraphLocations ==
    {LocationsOf([vcc |-> GoodCluster, sc |-> GoodSolver], os) :
        os \in {<<oA, oC>>, <<oA, oB>>, <<oA>>, <<oA, oD>>,
                <<oE, oA, oC>>}}

RouteIds == {0, 1, 7}

\* one route: at most MaxRouteIds ids
RoutePool == SeqsUpTo(RouteIds, MaxRouteIds)

\* route m of the flat list cut at the positions c
CutAt(flat, c, m) ==
    [j \in 1..m |-> SubSeq(flat, (IF j = 1 THEN 0 ELSE c[j-1]) + 1, c[j])]

\* lists of at most MaxRoutes routes holding at most MaxRouteIds ids in all
RouteLists ==
    {<<>>} \cup
    UNION { UNION { { CutAt(flat, c, m) :
                       c \in {d \in [1..m -> 0..Len(flat)] :
                                 /\ d[m] = Len(flat)
                                 /\ \A j \in 1..(m-1) : d[j] <= d[j+1]} } :
                    flat \in RoutePool } :
            m \in 1..MaxRoutes }

FloatPool == {Zero, F(-32), F(115), NextAway(F(115)), F(200)}

NoLocations == LocationsOf([vcc |-> GoodCluster, sc |-> GoodSolver], <<>>)

Inputs ==
    {[entry |-> e, file_locations |-> l, file_routes |-> <<<<0, 7>>>>, arg |-> <<<<>>, <<>>>>] :
        e \in {"reformat", "reformat_locations"}, l \in ReformatLocations}
    \cup
    {[entry |-> "plot_graph", file_locations |-> l, file_routes |-> rs, arg |-> <<<<>>, <<>>>>] :
        l \in GraphLocations, rs \in RouteLists}
    \cup
    {[entry |-> "create_graph", file_locations |-> l, file_routes |-> r, arg |-> <<<<>>, <<>>>>] :
        l \in GraphLocations, r \in RoutePool}
    \cup
    {[entry |-> "equi_rect_project", file_locations |-> NoLocations, file_routes |-> <<>>,
      arg |-> <<la, lo>>] :
        la \in SeqsUpTo(FloatPool, MaxLen), lo \in SeqsUpTo(FloatPool, MaxLen)}

\* --------------------------------------------------------- the program
Init ==
    /\ \E i \in Inputs :
          /\ entry = i.entry
          /\ file_locations = i.file_locations
          /\ file_routes = i.file_routes
          /\ arg = i.arg
    /\ pc = "start"
    /\ locations = [orders |-> <<>>]
    /\ routes = <<>>
    /\ lats = <<>>
    /\ longs = <<>>
    /\ orders = <<>>
    /\ scatter = <<>>
    /\ coll = NewColl
    /\ proj = EmptyProj
    /\ arrows = <<>>
    /\ calls = <<>>

\* json.load of the files; create_graph wraps its route: route = [route]
Load ==
    /\ pc = "start"
    /\ entry # "equi_rect_project"
    /\ routes' = (IF entry = "create_graph" THEN <<file_routes>>
                  ELSE IF entry = "reformat_locations" THEN <<>>
                  ELSE file_routes)
    /\ pc' = "loaded"
    /\ UNCHANGED <<inputs, locations, lats, longs, orders, scatter, coll, proj,
                   arrows, calls>>

\* locations = RouteInput(**locations)
Validate ==
    /\ pc = "loaded"
    /\ IF RouteInputValid(file_locations)
       THEN /\ locations' = [orders |-> RouteInputOrders(file_locations)]
            /\ pc' = "validated"
       ELSE /\ pc' = "error_validation"
            /\ UNCHANGED locations
    /\ UNCHANGED <<inputs, routes, lats, longs, orders, scatter, coll, proj,
                   arrows, calls>>

\* the projection moved before the construction of RouteInput
ProjectOrdersUnvalidated ==
    /\ pc = "loaded"
    /\ LET os == file_locations.orders
           c == ErpCall([i \in 1..Len(os) |-> os[i].lat],
                        [i \in 1..Len(os) |-> os[i].lon])
       IN /\ lats' = c.lat_out
          /\ longs' = c.lon_out
          /\ calls' = Append(calls, c)
    /\ locations' = [orders |-> file_locations.orders]
    /\ pc' = "projected"
    /\ UNCHANGED <<inputs, routes, orders, scatter, coll, proj, arrows>>

\* lats, longs = erp.equi_rect_project(lats, longs)
ProjectOrders ==
    /\ pc = "validated"
    /\ LET os == locations.orders
           c == ErpCall([i \in 1..Len(os) |-> os[i].lat],
                        [i \in 1..Len(os) |-> os[i].lon])
       IN /\ lats' = c.lat_out
          /\ longs' = c.lon_out
          /\ calls' = Append(calls, c)
    /\ pc' = "projected"
    /\ UNCHANGED <<inputs, locations, routes, orders, scatter, coll, proj, arrows>>

\* orders = {...}; return
BuildOrders ==
    /\ pc = "projected"
    /\ orders' = OrdersDict(locations.orders)
    /\ pc' = (IF entry \in {"reformat", "reformat_locations"} THEN "returned"
              ELSE "reformatted")
    /\ UNCHANGED <<inputs, locations, routes, lats, longs, scatter, coll, proj,
                   arrows, calls>>

\* plt.scatter(longs, lats)
Scatter ==
    /\ pc = "reformatted"
    /\ scatter' = [i \in 1..Len(longs) |-> <<longs[i], lats[i]>>]
    /\ pc' = "scattered"
    /\ UNCHANGED <<inputs, locations, routes, lats, longs, orders, coll, proj,
                   arrows, calls>>

\* __add_lines: the loops that collect the coordinates of every edge
Collect ==
    /\ pc = "scattered"
    /\ LET c == AddLinesCollect(routes, orders)
       IN IF c.err
          THEN pc' = "error_key" /\ UNCHANGED coll
          ELSE pc' = "collected" /\ coll' = c
    /\ UNCHANGED <<inputs, locations, routes, lats, longs, orders, scatter, proj,
                   arrows, calls>>

\* __add_lines: the two projections
ProjectEdges ==
    /\ pc = "collected"
    /\ LET cs == AddLinesCalls(coll)
       IN /\ proj' = [start_lats |-> cs[1].lat_out, start_longs |-> cs[1].lon_out,
                      end_lats |-> cs[2].lat_out, end_longs |-> cs[2].lon_out]
          /\ calls' = calls \o cs
    /\ pc' = "annotating"
    /\ UNCHANGED <<inputs, locations, routes, lats, longs, orders, scatter, coll,
                   arrows>>

\* __add_lines: one turn of the loop over range(len(start_lats))
Annotate ==
    /\ pc = "annotating"
    /\ Len(arrows) < Len(proj.start_lats)
    /\ LET i == Len(arrows) + 1
       IN arrows' = Append(arrows,
              [xy |-> <<proj.end_longs[i], proj.end_lats[i]>>,
               xytext |-> <<proj.start_longs[i], proj.start_lats[i]>>])
    /\ UNCHANGED <<inputs, pc, locations, routes, lats, longs, orders, scatter,
                   coll, proj, calls>>

\* the loop ends; title, labels, grid, show or savefig
Finish ==
    /\ pc = "annotating"
    /\ Len(arrows) >= Len(proj.start_lats)
    /\ pc' = "done"
    /\ UNCHANGED <<inputs, locations, routes, lats, longs, orders, scatter, coll,
                   proj, arrows, calls>>

\* equi_rect_project called on its own
DirectCall ==
    /\ pc = "start"
    /\ entry = "equi_rect_project"
    /\ LET c == ErpCall(arg[1], arg[2])
       IN /\ lats' = c.lat_out
          /\ longs' = c.lon_out
          /\ calls' = Append(calls, c)
    /\ pc' = "done"
    /\ UNCHANGED <<inputs, locations, routes, orders, scatter, coll, proj, arrows>>

Next ==
    \/ Load
    \/ Validate
    \/ ProjectOrders
    \/ BuildOrders
    \/ Scatter
    \/ Collect
    \/ ProjectEdges
    \/ Annotate
    \/ Finish
    \/ DirectCall

Spec == Init /\ [][Next]_vars

\* ---------------------------------------------------------- the claims
GraphEntry == entry \in {"plot_graph", "create_graph"}

PastValidation == pc \notin {"start", "loaded"}

PastCollect == pc \in {"collected", "annotating", "done", "error_key"}

\* the ranges of one order record, written out
InRange(o) ==
    /\ ~(o.order_id < 0)
    /\ ~LtF(o.lat, F(-90)) /\ ~LtF(F(90), o.lat)
    /\ ~LtF(o.lon, F(-180)) /\ ~LtF(F(180), o.lon)

AllInRange(os) == \A i \in 1..Len(os) : InRange(os[i])

HasDuplicateId(os) ==
    \E i \in 1..Len(os) : \E j \in 1..Len(os) :
        i < j /\ os[i].order_id = os[j].order_id

ConfigsWellFormed(d) ==
    /\ d.vehicle_cluster_config.type # Missing
    /\ d.solver_config.type # Missing
    /\ d.solver_config.distance # Missing
    /\ d.solver_config.max_solve_size > 0

RECURSIVE NumEdges(_)
\* sum over the routes of max(len - 1, 0)
NumEdges(rs) ==
    IF rs = <<>> THEN 0
    ELSE (IF Len(rs[1]) > 1 THEN Len(rs[1]) - 1 ELSE 0) + NumEdges(Tail(rs))

\* the ids that take part in an edge: those of the routes of two ids or more
EdgeIds(rs) ==
    UNION {{rs[j][i] : i \in 1..Len(rs[j])} : j \in {k \in 1..Len(rs) : Len(rs[k]) >= 2}}

AllIds(rs) == UNION {{rs[j][i] : i \in 1..Len(rs[j])} : j \in 1..Len(rs)}

KnownIds == {file_locations.orders[i].order_id : i \in 1..Len(file_locations.orders)}

\* where the arrow of edge i of route j stands among the arrows
ArrowIndex(rs, j, i) == NumEdges(SubSeq(rs, 1, j - 1)) + i

\* the projected point of a known order, as <<x, y>>
PointOf(a) == <<ProjectLon(orders[a].lon), ProjectLat(orders[a].lat)>>

\* the index of the order with id a in the validated list
IndexOfOrder(a) ==
    CHOOSE i \in 1..Len(locations.orders) : locations.orders[i].order_id = a

\* C1 as stated: with every order record valid, construction is rejected
\* exactly when two orders share an order_id, and otherwise succeeds and
\* keeps the orders list as given.
C1_Original ==
    (entry # "equi_rect_project" /\ PastValidation
       /\ AllInRange(file_locations.orders))
    => /\ (pc = "error_validation") <=> HasDuplicateId(file_locations.orders)
       /\ ~HasDuplicateId(file_locations.orders)
             => locations.orders = file_locations.orders

\* C1 amended: with every order record and both config records valid,
\* construction is rejected exactly when two orders share an order_id, and
\* otherwise succeeds and keeps the orders list, same elements, same order.
C1_UniqueIds ==
    (entry # "equi_rect_project" /\ PastValidation
       /\ AllInRange(file_locations.orders)
       /\ ConfigsWellFormed(file_locations))
    => /\ (pc = "error_validation") <=> HasDuplicateId(file_locations.orders)
       /\ ~HasDuplicateId(file_locations.orders)
             => locations.orders = file_locations.orders

C1_Witness ==
    /\ pc = "error_validation"
    /\ AllInRange(file_locations.orders)
    /\ ConfigsWellFormed(file_locations)
    /\ HasDuplicateId(file_locations.orders)

\* C2: an order record is accepted exactly when order_id >= 0,
\* -90 <= lat <= 90 and -180 <= lon <= 180, bounds included; one record out of
\* range fails the whole RouteInput, so every order of a constructed
\* RouteInput is in range.
C2_Ranges ==
    (entry # "equi_rect_project" /\ PastValidation)
    => /\ pc # "error_validation" => AllInRange(locations.orders)
       /\ ~AllInRange(file_locations.orders) => pc = "error_validation"
       /\ (Len(file_locations.orders) = 1 /\ ConfigsWellFormed(file_locations))
             => ((pc # "error_validation") <=> InRange(file_locations.orders[1]))

C2_Witness ==
    /\ pc = "returned"
    /\ Len(locations.orders) = 2
    /\ \E i \in 1..2 : locations.orders[i].lat = F(90) /\ locations.orders[i].lon = F(180)
    /\ \E i \in 1..2 : locations.orders[i].lat = F(-90) /\ locations.orders[i].lon = F(-180)

\* C3: in reformat and reformat_locations the projection is only ever called
\* after RouteInput was constructed, and a failed validation ends in an error
\* with nothing projected and no lats, longs or orders produced.
C3_ValidateFirst ==
    entry # "equi_rect_project"
    => /\ calls # <<>>
            => /\ pc \notin {"start", "loaded", "error_validation"}
               /\ AllInRange(file_locations.orders)
               /\ ~HasDuplicateId(file_locations.orders)
               /\ ConfigsWellFormed(file_locations)
       /\ pc = "error_validation"
            => /\ calls = <<>>
               /\ lats = <<>> /\ longs = <<>>
               /\ DOMAIN orders = {}
               /\ scatter = <<>> /\ arrows = <<>>

C3_Witness ==
    /\ pc = "error_validation"
    /\ Len(file_locations.orders) = 2
    /\ ~AllInRange(file_locations.orders)

\* C4: projected latitude i is 6371 * radians(latitudes[i]), projected
\* longitude i is 6371 * radians(longitudes[i]) * cos(radians(centre)) with the
\* fixed centre, and the result is (latitudes, longitudes) in that order.
C4_Formula ==
    /\ \A k \in 1..Len(calls) :
          /\ DOMAIN calls[k].lat_out = DOMAIN calls[k].lat_in
          /\ DOMAIN calls[k].lon_out = DOMAIN calls[k].lon_in
          /\ \A i \in DOMAIN calls[k].lat_in :
                calls[k].lat_out[i] = MulF(F(6371), MulF(calls[k].lat_in[i], Deg2Rad))
          /\ \A i \in DOMAIN calls[k].lon_in :
                calls[k].lon_out[i] =
                   MulF(MulF(F(6371), MulF(calls[k].lon_in[i], Deg2Rad)), CosCentre)
    /\ (entry = "equi_rect_project" /\ pc = "done")
          => /\ lats = [i \in 1..Len(arg[1]) |-> ProjectLat(arg[1][i])]
             /\ longs = [i \in 1..Len(arg[2]) |-> ProjectLon(arg[2][i])]

C4_Witness ==
    /\ entry = "equi_rect_project" /\ pc = "done"
    /\ Len(arg[1]) = 2 /\ Len(arg[2]) = 1
    /\ arg[1][1] = F(115) /\ arg[2][1] = F(115)
    /\ lats[1] # longs[1]

C6_Original ==
    (GraphEntry /\ pc \in {"done", "error_key"})
    => /\ Len(arrows) = NumEdges(routes)
       /\ entry = "create_graph" => Len(arrows) = Len(file_routes) - 1

\* C6 amended: when every id that takes part in an edge is a known order_id,
\* __add_lines ends having drawn one arrow per edge, sum of max(len - 1, 0)
\* in all, the arrows of route j from r_j[i] to r_j[i+1] in visiting order,
\* none for a route of zero or one id and none between two routes;
\* create_graph with a route of n >= 1 such ids draws n - 1 arrows, with an
\* empty route none.
C6_ArrowPerEdge ==
    /\ (GraphEntry /\ pc \in {"done", "error_key"} /\ EdgeIds(routes) \subseteq KnownIds)
          => pc = "done"
    /\ (GraphEntry /\ pc = "done")
          => /\ Len(arrows) = NumEdges(routes)
             /\ \A j \in 1..Len(routes) : \A i \in 1..(Len(routes[j]) - 1) :
                   arrows[ArrowIndex(routes, j, i)] =
                      [xy |-> PointOf(routes[j][i + 1]), xytext |-> PointOf(routes[j][i])]
             /\ entry = "create_graph"
                   => Len(arrows) = (IF Len(file_routes) >= 1
                                     THEN Len(file_routes) - 1 ELSE 0)

C6_Witness ==
    /\ entry = "plot_graph" /\ pc = "done"
    /\ Len(routes) = 2
    /\ Len(routes[1]) = 2 /\ Len(routes[2]) = 2
    /\ routes[1][2] # routes[2][1]
    /\ Len(arrows) = 2

\* C7: after a successful reformat the orders dictionary has one key per
\* input order, keyed by order_id, holding the unprojected lat and lon, and
\* lats and longs are as long as the orders list, entry i the projection of
\* input order i.
C7_Reformatted ==
    (entry # "equi_rect_project"
       /\ pc \in {"returned", "reformatted", "scattered", "collected",
                  "annotating", "done", "error_key"})
    => LET os == file_locations.orders
       IN /\ DOMAIN orders = {os[i].order_id : i \in 1..Len(os)}
          /\ Cardinality(DOMAIN orders) = Len(os)
          /\ \A i \in 1..Len(os) :
                orders[os[i].order_id] = [lat |-> os[i].lat, lon |-> os[i].lon]
          /\ Len(lats) = Len(os) /\ Len(longs) = Len(os)
          /\ \A i \in 1..Len(os) :
                lats[i] = ProjectLat(os[i].lat) /\ longs[i] = ProjectLon(os[i].lon)

C7_Witness ==
    /\ pc = "returned"
    /\ Len(file_locations.orders) = 2
    /\ Cardinality(DOMAIN orders) = 2
    /\ lats[1] # lats[2]

\* C8 as stated: the projection is element-wise, keeps lengths, maps 0 to 0
\* and is strictly increasing in each coordinate, so different coordinates
\* never project to the same value.
C8_Original ==
    \A k \in 1..Len(calls) :
       /\ Len(calls[k].lat_out) = Len(calls[k].lat_in)
       /\ Len(calls[k].lon_out) = Len(calls[k].lon_in)
       /\ \A i \in DOMAIN calls[k].lat_in : \A j \in DOMAIN calls[k].lat_in :
             LtF(calls[k].lat_in[i], calls[k].lat_in[j])
             => LtF(calls[k].lat_out[i], calls[k].lat_out[j])
       /\ \A i \in DOMAIN calls[k].lon_in : \A j \in DOMAIN calls[k].lon_in :
             LtF(calls[k].lon_in[i], calls[k].lon_in[j])
             => LtF(calls[k].lon_out[i], calls[k].lon_out[j])

\* C8 amended: the projection is element-wise and keeps lengths and order,
\* output i depends only on input i, 0 maps to 0, and the mapping is
\* non-decreasing in each coordinate: a larger latitude or longitude never
\* projects to a smaller value (it may project to the same one).
C8_Monotone ==
    \A k \in 1..Len(calls) :
       /\ Len(calls[k].lat_out) = Len(calls[k].lat_in)
       /\ Len(calls[k].lon_out) = Len(calls[k].lon_in)
       /\ \A i \in DOMAIN calls[k].lat_in :
             /\ calls[k].lat_in[i] = Zero => calls[k].lat_out[i] = Zero
             /\ \A n \in 1..Len(calls) : \A j \in DOMAIN calls[n].lat_in :
                   /\ calls[k].lat_in[i] = calls[n].lat_in[j]
                         => calls[k].lat_out[i] = calls[n].lat_out[j]
                   /\ LtF(calls[k].lat_in[i], calls[n].lat_in[j])
                         => LeF(calls[k].lat_out[i], calls[n].lat_out[j])
       /\ \A i \in DOMAIN calls[k].lon_in :
             /\ calls[k].lon_in[i] = Zero => calls[k].lon_out[i] = Zero
             /\ \A n \in 1..Len(calls) : \A j \in DOMAIN calls[n].lon_in :
                   /\ calls[k].lon_in[i] = calls[n].lon_in[j]
                         => calls[k].lon_out[i] = calls[n].lon_out[j]
                   /\ LtF(calls[k].lon_in[i], calls[n].lon_in[j])
                         => LeF(calls[k].lon_out[i], calls[n].lon_out[j])

C8_Witness ==
    /\ entry = "equi_rect_project" /\ pc = "done"
    /\ arg[1] = <<Zero, F(115)>>
    /\ arg[2] = <<F(115), NextAway(F(115))>>
    /\ LtF(lats[1], lats[2])
    /\ longs[1] = longs[2]

\* C9 as stated: whenever a route holds an id that is no order_id of the
\* input, __add_lines fails during edge collection and draws no arrow.
C9_Original ==
    (GraphEntry /\ PastCollect /\ ~(AllIds(routes) \subseteq KnownIds))
    => (pc = "error_key" /\ arrows = <<>>)

\* C9 amended: whenever a route of two ids or more holds an id that is no
\* order_id of the input, __add_lines fails during edge collection and draws
\* no arrow, not for the edges before the unknown id nor for other routes;
\* arrows are drawn for every edge of every route or for none.
C9_AllOrNothing ==
    GraphEntry
    => /\ (PastCollect /\ ~(EdgeIds(routes) \subseteq KnownIds))
             => (pc = "error_key" /\ arrows = <<>>)
       /\ pc = "error_key"
             => (arrows = <<>> /\ ~(EdgeIds(routes) \subseteq KnownIds))
       /\ arrows # <<>> => EdgeIds(routes) \subseteq KnownIds
       /\ pc = "done" => Len(arrows) = NumEdges(routes)

C9_Witness ==
    /\ entry = "plot_graph" /\ pc = "error_key"
    /\ Len(routes) = 2
    /\ routes[1] = <<0, 1>>
    /\ routes[2] = <<1, 7>>
    /\ {0, 1} \subseteq KnownIds
    /\ arrows = <<>>

\* C10: every arrow starts and ends on a scatter point: for an edge (a, b)
\* the arrow starts at the point plotted for order a and ends at the point
\* plotted for order b.
C10_OnScatter ==
    GraphEntry
    => \A j \in 1..Len(routes) : \A i \in 1..(Len(routes[j]) - 1) :
          ArrowIndex(routes, j, i) <= Len(arrows)
          => /\ arrows[ArrowIndex(routes, j, i)].xytext
                   = scatter[IndexOfOrder(routes[j][i])]
             /\ arrows[ArrowIndex(routes, j, i)].xy
                   = scatter[IndexOfOrder(routes[j][i + 1])]

C10_Witness ==
    /\ pc = "done"
    /\ Len(arrows) = 3
    /\ Len(scatter) >= 2
    /\ arrows[1].xytext = scatter[1]
    /\ arrows[1].xy = scatter[2]
    /\ scatter[1] # scatter[2]

====
